---- MODULE Spec2Model ----
(***************************************************************************)
(* bettergit/ui.py: select_undo_point, the arrow-key navigator, with the   *)
(* select_from_list fallback it calls from its `except Exception` handler. *)
(*                                                                         *)
(* One call of select_undo_point(message, choices) is modelled.  The       *)
(* environment of the call is fixed in Init: os.name, whether `import      *)
(* msvcrt` succeeds, whether stdin is a terminal (termios.tcgetattr        *)
(* succeeds), the option list and the terminal attributes in force before  *)
(* the call.  The call blocks only in a read of one byte, so the model has *)
(* one action per stretch of code between two blocking reads.              *)
(*                                                                         *)
(* Option strings are modelled by natural numbers (a string id); id 0 is   *)
(* the empty string, the only string Python treats as false.               *)
(***************************************************************************)
EXTENDS Integers, Sequences, FiniteSets, TLC

VARIABLES
    osName,             \* os.name: "nt" or "posix"
    msvcrtOk,           \* TRUE iff `import msvcrt` (line 196) succeeds
    ttyOk,              \* TRUE iff termios.tcgetattr(fd) (line 293) succeeds
    choices,            \* the option list, a sequence of string ids
    origAttrs,          \* terminal attributes in force before the call
    pc,                 \* position of the call
    session,            \* state of the navigator session
    result,             \* the value returned (None or an index)
    fault,              \* the failure that was raised, "none" if none
    current_pos,        \* line 203
    menu_lines_printed, \* line 204
    start_idx,          \* window of the last display_menu, line 228
    end_idx,            \* line 229
    termAttrs,          \* attributes of the terminal device
    old_settings,       \* line 293
    keys,               \* bytes read in the current loop iteration
    evlog,              \* arrow keys read so far, in arrival order
    stdinClosed,        \* TRUE once a read has returned ''
    pending,            \* TRUE iff bytes of the keystroke being read are still
                        \* waiting in the input buffer
    screenLines,        \* menu lines on the screen below the header
    headerCount,        \* number of times display_header has printed
    redraws,            \* number of completed display_menu calls
    drawn,              \* what the last display_menu call printed: <<a "..."
                        \* line above, number of option lines, a "..." line below>>
    shownPos,           \* the cursor position the last display_menu call
                        \* highlighted (line 247), None before the first
    warned,             \* print_warning("No options available...") was called
    picked              \* value select_from_list returned in the fallback

env  == <<osName, msvcrtOk, ttyOk, choices, origAttrs>>
ctl  == <<pc, session, result, fault>>
nav  == <<current_pos, menu_lines_printed, start_idx, end_idx>>
term == <<termAttrs, old_settings>>
inp  == <<keys, evlog, stdinClosed, pending>>
scr  == <<screenLines, headerCount, redraws, drawn, shownPos>>
fb   == <<warned, picked>>
vars == <<env, ctl, nav, term, inp, scr, fb>>

----------------------------------------------------------------------------
(* Bounds of the model *)

MaxN == 12      \* longest option list of a navigator session
MaxKeys == 6    \* arrow keys of one session
MaxWinN == 25   \* longest option list the window computation is applied to
DupLen == 3     \* longest option list with duplicated strings

----------------------------------------------------------------------------
(* Values *)

None == -1          \* Python's None, as a return value
EmptyStr == 0       \* id of the string ''
max_visible == 10

ESC == "ESC"        \* '\x1b'
LBR == "["
CR  == "CR"         \* '\r'
LF  == "LF"         \* '\n'
ETX == "ETX"        \* '\x03'
E0  == "E0"         \* b'\xe0'
EOF == ""           \* sys.stdin.read(1) at end of input

Bytes == {ESC, LBR, "A", "B", CR, LF, ETX, E0, "H", "P", "x"}

Max(a, b) == IF a >= b THEN a ELSE b
Min(a, b) == IF a <= b THEN a ELSE b

N == Len(choices)

----------------------------------------------------------------------------
(* display_menu: the visible window and the line count *)

Window_nohalf(n, c) ==
    LET s0 == Max(0, c - max_visible)
        e  == Min(n, s0 + max_visible)
        s  == IF e - s0 < max_visible /\ s0 > 0 THEN Max(0, e - max_visible) ELSE s0
    IN  <<s, e>>

Window_noshift(n, c) ==
    LET s0 == Max(0, c - max_visible \div 2)
        e  == Min(n, s0 + max_visible)
    IN  <<s0, e>>

Window(n, c) ==
    LET s0 == Max(0, c - max_visible \div 2)
        e  == Min(n, s0 + max_visible)
        s  == IF e - s0 < max_visible /\ s0 > 0 THEN Max(0, e - max_visible) ELSE s0
    IN  <<s, e>>

\* line 238: the "..." line above the options
ShowsAbove(s) == s > 0

\* line 257: the "..." line below the options
ShowsBelow_atend(e, n) == e <= n

ShowsBelow(e, n) == e < n

LinesCount_nomarkers(n, s, e) == e - s

LinesCount(n, s, e) ==
    (IF ShowsAbove(s) THEN 1 ELSE 0) + (e - s) + (IF ShowsBelow(e, n) THEN 1 ELSE 0)

\* the lines a display_menu call has put on the screen
DrawnLines(d) == (IF d[1] THEN 1 ELSE 0) + d[2] + (IF d[3] THEN 1 ELSE 0)

\* clear_menu_lines(num_lines): num_lines lines above the cursor are erased
ClearMenuLines(onScreen, num_lines) ==
    IF num_lines > 0 THEN onScreen - num_lines ELSE onScreen

\* display_menu() with current_pos = pos, all prints succeeding
DisplayMenu(pos) ==
    LET w == Window(N, pos)
        lines_count == LinesCount(N, w[1], w[2])
    IN  /\ start_idx' = w[1]
        /\ end_idx' = w[2]
        /\ drawn' = <<ShowsAbove(w[1]), w[2] - w[1], ShowsBelow(w[2], N)>>
        /\ screenLines' = ClearMenuLines(screenLines, menu_lines_printed)
                             + DrawnLines(drawn')
        /\ menu_lines_printed' = lines_count
        /\ redraws' = redraws + 1
        /\ shownPos' = pos

\* display_menu() with current_pos = pos whose print number k + 1 of the menu
\* raises: the old menu is erased, the window is computed and k lines are
\* printed, line 261 is not reached
DisplayMenuFails(pos, k) ==
    LET w == Window(N, pos)
        above == ShowsAbove(w[1]) /\ k >= 1
        items == Max(0, Min(w[2] - w[1], k - (IF ShowsAbove(w[1]) THEN 1 ELSE 0)))
    IN  /\ start_idx' = w[1]
        /\ end_idx' = w[2]
        /\ drawn' = <<above, items, FALSE>>
        /\ screenLines' = ClearMenuLines(screenLines, menu_lines_printed) + k
        /\ shownPos' = pos
        /\ UNCHANGED <<menu_lines_printed, redraws>>

\* the prints of the menu that can raise: any but none of them
FailingPrints(pos) ==
    LET w == Window(N, pos) IN 0..(LinesCount(N, w[1], w[2]) - 1)

----------------------------------------------------------------------------
(* The option lists and the environments of a call *)

\* strings all different, none empty
Distinct(n) == [i \in 1..n |-> i]
\* '' and one other string, alternating: duplicates from length 3 on
Alternating(n) == [i \in 1..n |-> (i - 1) % 2]

ChoiceLists ==
    {Distinct(n) : n \in 0..MaxN} \cup {Alternating(n) : n \in 2..DupLen}

\* choices.index(s): the smallest index holding s (0-based)
Index(seq, s) == (CHOOSE i \in 1..Len(seq) :
                     seq[i] = s /\ \A j \in 1..(i - 1) : seq[j] # s) - 1

TypeOK ==
    /\ osName \in {"nt", "posix"}
    /\ msvcrtOk \in BOOLEAN /\ ttyOk \in BOOLEAN /\ stdinClosed \in BOOLEAN
    /\ pc \in {"Init", "Loop", "Read1", "Read2", "Read3", "Getch2",
               "Fallback", "Returned", "Redraw", "Redrawn"}
    /\ session \in {"Initializing", "Running", "Accepted", "Cancelled",
                    "Faulted", "Interrupted", "Empty"}
    /\ result \in {None} \cup (0..MaxWinN + 1)
    /\ fault \in {"none", "import", "tty", "io", "kbint"}
    /\ termAttrs \in {"cooked", "cbreak", "raw"}
    /\ warned \in BOOLEAN /\ pending \in BOOLEAN
    /\ drawn \in BOOLEAN \X (0..max_visible) \X BOOLEAN

----------------------------------------------------------------------------
(* Control transfers *)

Ctl(p, st, r, f) == pc' = p /\ session' = st /\ result' = r /\ fault' = f

\* the `finally` of line 315: termios.tcsetattr(fd, TCSADRAIN, old_settings)
Finally_skip == termAttrs' = termAttrs

Finally == termAttrs' = old_settings

\* what runs when an iteration of the loop is left: the finally block on the
\* termios branch, nothing on the msvcrt branch
Cleanup_none == termAttrs' = termAttrs

Cleanup == IF osName = "nt" THEN termAttrs' = termAttrs ELSE Finally

\* `return v` from inside the loop
Return(v, st) == Cleanup /\ Ctl("Returned", st, v, fault)

\* an exception raised inside the loop reaches `except Exception` (line 320)
Raise(kind) == Cleanup /\ Ctl("Fallback", "Faulted", result, kind)

\* a KeyboardInterrupt raised inside the loop reaches line 318
Interrupt_propagates == Cleanup /\ Ctl("Raised", "Interrupted", result, "kbint")

Interrupt == Cleanup /\ Ctl("Returned", "Interrupted", None, "kbint")

\* the end of an iteration that goes round the `while True`
Continue == Cleanup /\ Ctl("Loop", session, result, fault)

----------------------------------------------------------------------------
(* Key decoding, as the branches of the loop test the bytes *)

\* line 297, 311, 313
TermiosKey1_etx_accepts(key) ==
    IF key = ESC THEN "escape"
    ELSE IF key = CR \/ key = LF \/ key = ETX THEN "enter"
    ELSE "none"

TermiosKey1(key) ==
    IF key = ESC THEN "escape"
    ELSE IF key = CR \/ key = LF THEN "enter"
    ELSE IF key = ETX THEN "ctrlc"
    ELSE "none"

\* line 299, 309
TermiosKey2(key2) ==
    IF key2 = LBR THEN "csi"
    ELSE IF key2 = EOF THEN "justescape"
    ELSE "none"

\* line 301, 305
TermiosKey3_swapped(key3) ==
    IF key3 = "A" THEN "down"
    ELSE IF key3 = "B" THEN "up"
    ELSE "none"

TermiosKey3(key3) ==
    IF key3 = "A" THEN "up"
    ELSE IF key3 = "B" THEN "down"
    ELSE "none"

\* line 274, 284, 286, 288
WinKey1(key) ==
    IF key = E0 THEN "prefix"
    ELSE IF key = CR THEN "enter"
    ELSE IF key = ESC THEN "escape"
    ELSE IF key = ETX THEN "ctrlc"
    ELSE "none"

\* line 276, 280
WinKey2_anydown(key) ==
    IF key = "H" THEN "up" ELSE "down"

WinKey2(key) ==
    IF key = "H" THEN "up"
    ELSE IF key = "P" THEN "down"
    ELSE "none"

\* line 277-278, 302-303
MoveUpPos_noclamp(pos) == pos - 1

MoveUpPos(pos) == IF pos > 0 THEN pos - 1 ELSE pos

\* line 281-282, 306-307
MoveDownPos_noclamp(pos, n) == pos + 1

MoveDownPos(pos, n) == IF pos < n - 1 THEN pos + 1 ELSE pos

\* the byte sequences of the two arrow keys on this platform
UpSeq == IF osName = "nt" THEN <<E0, "H">> ELSE <<ESC, LBR, "A">>
DownSeq == IF osName = "nt" THEN <<E0, "P">> ELSE <<ESC, LBR, "B">>

\* the arrow keys read so far
LogKey(ks) ==
    IF ks = UpSeq THEN Append(evlog, "Up")
    ELSE IF ks = DownSeq THEN Append(evlog, "Down")
    ELSE evlog

\* outcomes of one blocking read or of the prints of one redraw
IoFaults == {"!exc", "!kbint"}
PrintOutcomes == {"ok"} \cup IoFaults

\* sys.stdin.read(1): a character, '' at end of input (and from then on), or
\* a failure
StdinRead ==
    (IF stdinClosed THEN {EOF} ELSE IF pending THEN Bytes ELSE Bytes \cup {EOF})
        \cup IoFaults

\* msvcrt.getch(): a byte or a failure
Getch == Bytes \cup IoFaults

----------------------------------------------------------------------------
(* The call *)

Init ==
    /\ osName \in {"nt", "posix"}
    /\ msvcrtOk \in BOOLEAN
    /\ ttyOk \in BOOLEAN
    \* msvcrt is a built-in module of every Windows build of Python; on the
    \* other platforms the import succeeds only if a module of that name is
    \* on the import path
    /\ osName = "nt" => msvcrtOk
    \* tcgetattr is reached only on the termios branch
    /\ (osName = "nt" \/ ~msvcrtOk) => ttyOk
    /\ choices \in ChoiceLists
    /\ origAttrs \in {"cooked", "cbreak"}
    /\ termAttrs = origAttrs
    /\ old_settings = origAttrs
    /\ pc = "Init" /\ session = "Initializing" /\ result = None /\ fault = "none"
    /\ current_pos = 0 /\ menu_lines_printed = 0 /\ start_idx = 0 /\ end_idx = 0
    /\ keys = <<>> /\ evlog = <<>> /\ stdinClosed = FALSE /\ pending = FALSE
    /\ screenLines = 0 /\ headerCount = 0 /\ redraws = 0
    /\ drawn = <<FALSE, 0, FALSE>> /\ shownPos = None
    /\ warned = FALSE /\ picked = None

\* an arrow key whose cursor change is followed by display_menu(); the
\* cursor is assigned before the redraw prints
Arrow_always(newpos, ks) ==
    /\ current_pos' = newpos
    /\ keys' = ks
    /\ UNCHANGED headerCount
    /\ DisplayMenu(newpos) /\ Continue /\ evlog' = LogKey(ks)

Arrow(newpos, ks) ==
    /\ current_pos' = newpos
    /\ keys' = ks
    /\ UNCHANGED headerCount
    /\ IF newpos = current_pos
       THEN /\ Continue
            /\ evlog' = LogKey(ks)
            /\ UNCHANGED <<menu_lines_printed, start_idx, end_idx, screenLines,
                           redraws, drawn, shownPos>>
       ELSE \E p \in PrintOutcomes :
              IF p = "ok"
              THEN DisplayMenu(newpos) /\ Continue /\ evlog' = LogKey(ks)
              ELSE /\ \E k \in FailingPrints(newpos) : DisplayMenuFails(newpos, k)
                   /\ UNCHANGED evlog
                   /\ IF p = "!exc" THEN Raise("io") ELSE Interrupt

\* a key the loop does nothing with
NoKey_redraw(ks) ==
    /\ keys' = ks
    /\ evlog' = LogKey(ks)
    /\ Continue
    /\ DisplayMenu(current_pos)
    /\ UNCHANGED <<current_pos, headerCount>>

NoKey(ks) ==
    /\ keys' = ks
    /\ evlog' = LogKey(ks)
    /\ Continue
    /\ UNCHANGED <<nav, scr>>

\* a read that raised, after the bytes prev of the same key
ReadFault(prev, r) ==
    /\ keys' = Append(prev, r)
    /\ UNCHANGED <<evlog, nav, scr>>
    /\ IF r = "!exc" THEN Raise("io") ELSE Interrupt

\* line 199: `if not choices`
NoChoices_never == FALSE

NoChoices == choices = <<>>

\* lines 195-268: the import, the empty-list test, the header and the first
\* display_menu(); a print that raises is one of the header (nothing is
\* printed) or one of the menu
Start ==
    /\ pc = "Init"
    /\ UNCHANGED <<env, term, inp, picked, current_pos>>
    /\ IF ~msvcrtOk
       THEN /\ Ctl("Fallback", "Faulted", result, "import")
            /\ UNCHANGED <<menu_lines_printed, start_idx, end_idx, scr, warned>>
       ELSE IF NoChoices
       THEN /\ warned' = TRUE
            /\ Ctl("Returned", "Empty", None, fault)
            /\ UNCHANGED <<menu_lines_printed, start_idx, end_idx, scr>>
       ELSE \E p \in PrintOutcomes :
              /\ UNCHANGED warned
              /\ IF p = "ok"
                 THEN /\ headerCount' = headerCount + 1
                      /\ DisplayMenu(0)
                      /\ Ctl("Loop", "Running", result, fault)
                 ELSE /\ \/ UNCHANGED <<menu_lines_printed, start_idx, end_idx, scr>>
                         \/ /\ headerCount' = headerCount + 1
                            /\ \E k \in FailingPrints(0) : DisplayMenuFails(0, k)
                      /\ IF p = "!exc"
                         THEN Ctl("Fallback", "Faulted", result, "io")
                         ELSE Ctl("Returned", "Interrupted", None, "kbint")

\* lines 291-295: fileno, tcgetattr, setraw
EnterRaw ==
    /\ pc = "Loop" /\ osName # "nt"
    /\ Len(evlog) < MaxKeys
    /\ UNCHANGED <<env, nav, scr, fb, evlog, stdinClosed, pending>>
    /\ IF ~ttyOk
       THEN /\ Ctl("Fallback", "Faulted", result, "tty")
            /\ UNCHANGED <<term, keys>>
       ELSE /\ old_settings' = termAttrs
            /\ termAttrs' = "raw"
            /\ keys' = <<>>
            /\ Ctl("Read1", session, result, fault)

\* lines 296-297, 311-316: the first byte of a key
Read1 ==
    /\ pc = "Read1"
    /\ UNCHANGED <<env, fb, old_settings>>
    /\ \E r \in StdinRead :
         IF r \in IoFaults
         THEN ReadFault(<<>>, r) /\ UNCHANGED stdinClosed
         ELSE /\ stdinClosed' = (stdinClosed \/ r = EOF)
              /\ LET b == TermiosKey1(r) IN
                 IF b = "escape"
                 THEN /\ keys' = <<r>>
                      /\ Ctl("Read2", session, result, fault)
                      /\ UNCHANGED <<termAttrs, evlog, nav, scr>>
                 ELSE IF b = "enter"
                 THEN /\ keys' = <<r>>
                      /\ Return(current_pos, "Accepted")
                      /\ UNCHANGED <<evlog, nav, scr>>
                 ELSE IF b = "ctrlc"
                 THEN /\ keys' = <<r>>
                      /\ Return(None, "Cancelled")
                      /\ UNCHANGED <<evlog, nav, scr>>
                 ELSE NoKey(<<r>>)
    /\ pending' \in (IF pc' \in {"Read2", "Read3"} THEN BOOLEAN ELSE {FALSE})

\* lines 298-299, 309-310: the byte after ESC
Read2 ==
    /\ pc = "Read2"
    /\ UNCHANGED <<env, fb, old_settings>>
    /\ \E r \in StdinRead :
         IF r \in IoFaults
         THEN ReadFault(keys, r) /\ UNCHANGED stdinClosed
         ELSE /\ stdinClosed' = (stdinClosed \/ r = EOF)
              /\ LET b == TermiosKey2(r) IN
                 IF b = "csi"
                 THEN /\ keys' = Append(keys, r)
                      /\ Ctl("Read3", session, result, fault)
                      /\ UNCHANGED <<termAttrs, evlog, nav, scr>>
                 ELSE IF b = "justescape"
                 THEN /\ keys' = Append(keys, r)
                      /\ Return(None, "Cancelled")
                      /\ UNCHANGED <<evlog, nav, scr>>
                 ELSE NoKey(Append(keys, r))
    /\ pending' \in (IF pc' \in {"Read2", "Read3"} THEN BOOLEAN ELSE {FALSE})

\* lines 300-308: the byte after ESC '['
Read3 ==
    /\ pc = "Read3"
    /\ UNCHANGED <<env, fb, old_settings>>
    /\ \E r \in StdinRead :
         IF r \in IoFaults
         THEN ReadFault(keys, r) /\ UNCHANGED stdinClosed
         ELSE /\ stdinClosed' = (stdinClosed \/ r = EOF)
              /\ LET b == TermiosKey3(r) IN
                 IF b = "up" THEN Arrow(MoveUpPos(current_pos), Append(keys, r))
                 ELSE IF b = "down"
                 THEN Arrow(MoveDownPos(current_pos, N), Append(keys, r))
                 ELSE NoKey(Append(keys, r))
    /\ pending' \in (IF pc' \in {"Read2", "Read3"} THEN BOOLEAN ELSE {FALSE})

\* lines 273-274, 284-289: the first byte of a key from msvcrt.getch()
Getch1 ==
    /\ pc = "Loop" /\ osName = "nt"
    /\ Len(evlog) < MaxKeys
    /\ UNCHANGED <<env, fb, old_settings, stdinClosed, pending>>
    /\ \E r \in Getch :
         IF r \in IoFaults
         THEN ReadFault(<<>>, r)
         ELSE LET b == WinKey1(r) IN
              IF b = "prefix"
              THEN /\ keys' = <<r>>
                   /\ Ctl("Getch2", session, result, fault)
                   /\ UNCHANGED <<termAttrs, evlog, nav, scr>>
              ELSE IF b = "enter"
              THEN /\ keys' = <<r>>
                   /\ Return(current_pos, "Accepted")
                   /\ UNCHANGED <<evlog, nav, scr>>
              ELSE IF b = "escape" \/ b = "ctrlc"
              THEN /\ keys' = <<r>>
                   /\ Return(None, "Cancelled")
                   /\ UNCHANGED <<evlog, nav, scr>>
              ELSE NoKey(<<r>>)

\* lines 275-283: the byte after the 0xE0 prefix
Getch2 ==
    /\ pc = "Getch2"
    /\ UNCHANGED <<env, fb, old_settings, stdinClosed, pending>>
    /\ \E r \in Getch :
         IF r \in IoFaults
         THEN ReadFault(keys, r)
         ELSE LET b == WinKey2(r) IN
              IF b = "up" THEN Arrow(MoveUpPos(current_pos), Append(keys, r))
              ELSE IF b = "down"
              THEN Arrow(MoveDownPos(current_pos, N), Append(keys, r))
              ELSE NoKey(Append(keys, r))

\* select_from_list(message, choices), lines 170-187: what it returns
\* (a = 0: the prompt was cancelled, failed or was interrupted; a = i: the
\* user picked choices[i])
SelectFromList(a) == IF a = 0 THEN None ELSE choices[a]

\* lines 324-326
FallbackResult_cursor(r) == IF r # None /\ r # EmptyStr THEN current_pos ELSE None

FallbackResult(r) == IF r # None /\ r # EmptyStr THEN Index(choices, r) ELSE None

\* lines 320-326: the handler of `except Exception`
Fallback ==
    /\ pc = "Fallback"
    /\ UNCHANGED <<env, nav, term, inp, scr>>
    /\ warned' = (warned \/ choices = <<>>)
    /\ \E a \in 0..N :
         /\ picked' = SelectFromList(a)
         /\ Ctl("Returned", session, FallbackResult(picked'), fault)

Next ==
    \/ Start
    \/ EnterRaw
    \/ Read1
    \/ Read2
    \/ Read3
    \/ Getch1
    \/ Getch2
    \/ Fallback

Spec == Init /\ [][Next]_vars

----------------------------------------------------------------------------
(* The window computation on its own: display_menu() applied once to every *)
(* list length and cursor position                                         *)

InitWindow ==
    /\ osName = "posix" /\ msvcrtOk = TRUE /\ ttyOk = TRUE
    /\ choices \in {Distinct(n) : n \in 1..MaxWinN}
    /\ origAttrs = "cooked" /\ termAttrs = "cooked" /\ old_settings = "cooked"
    /\ pc = "Redraw" /\ session = "Running" /\ result = None /\ fault = "none"
    /\ current_pos \in 0..(Len(choices) - 1)
    /\ menu_lines_printed = 0 /\ start_idx = 0 /\ end_idx = 0
    /\ keys = <<>> /\ evlog = <<>> /\ stdinClosed = FALSE /\ pending = FALSE
    /\ screenLines = 0 /\ headerCount = 1 /\ redraws = 0
    /\ drawn = <<FALSE, 0, FALSE>> /\ shownPos = None
    /\ warned = FALSE /\ picked = None

\* lines 220-261
Redraw ==
    /\ pc = "Redraw"
    /\ DisplayMenu(current_pos)
    /\ pc' = "Redrawn"
    /\ UNCHANGED <<env, session, result, fault, current_pos, term, inp, headerCount, fb>>

NextWindow == Redraw

SpecWindow == InitWindow /\ [][NextWindow]_vars

----------------------------------------------------------------------------
(* Properties *)

\* the steps of the loop, told by the bytes the iteration has read
RunningPcs == {"Loop", "Read1", "Read2", "Read3", "Getch2"}

\* effects of the logical key events on one step
ActsAsMoveUp ==
    /\ current_pos' = (IF current_pos > 0 THEN current_pos - 1 ELSE current_pos)
    /\ \/ pc' = "Loop" /\ session' = "Running"
       \/ current_pos > 0 /\ fault' \in {"io", "kbint"}     \* the redraw failed

ActsAsMoveDown ==
    /\ current_pos' = (IF current_pos < N - 1 THEN current_pos + 1 ELSE current_pos)
    /\ \/ pc' = "Loop" /\ session' = "Running"
       \/ current_pos < N - 1 /\ fault' \in {"io", "kbint"} \* the redraw failed

ActsAsIgnore ==
    /\ pc' = "Loop" /\ session' = "Running"
    /\ UNCHANGED <<nav, scr, result>>

ActsAsCancel ==
    /\ pc' = "Returned" /\ session' = "Cancelled" /\ result' = None

ActsAsAccept ==
    /\ pc' = "Returned" /\ session' = "Accepted" /\ result' = current_pos
    /\ UNCHANGED current_pos

\* C1: whenever select_undo_point has returned on the termios platform, by
\* any path, the terminal attributes equal the attributes in force before the
\* call.
C1_TerminalRestored ==
    (pc = "Returned" /\ osName = "posix") => termAttrs = origAttrs

\* a return through `except Exception` after a key was read in raw mode, from
\* a terminal that was not in its default mode
C1_Witness ==
    /\ pc = "Returned" /\ osName = "posix" /\ session = "Faulted"
    /\ fault = "io" /\ Len(keys) >= 2 /\ origAttrs = "cbreak"
    /\ termAttrs = "cbreak"

\* the cursor after the moves of log, from c, clamped to 0..n-1
RECURSIVE ApplyMoves(_, _, _)
ApplyMoves(log, n, c) ==
    IF log = <<>> THEN c
    ELSE ApplyMoves(Tail(log), n,
                    IF Head(log) = "Up" THEN Max(0, c - 1) ELSE Min(n - 1, c + 1))

\* C2: after any sequence of MoveUp/MoveDown events followed by Accept the
\* call returns an index i, 0 <= i < N, equal to the cursor obtained by
\* applying the moves in arrival order from 0, clamped at 0 and N-1.
C2_AcceptReturnsClampedCursor ==
    (pc = "Returned" /\ session = "Accepted") =>
        /\ result \in 0..(N - 1)
        /\ result = ApplyMoves(evlog, N, 0)

\* three options, Up at the top, then Down three times (the last one at the
\* bottom), then Accept
C2_Witness ==
    /\ pc = "Returned" /\ session = "Accepted" /\ N = 3
    /\ evlog = <<"Up", "Down", "Down", "Down">> /\ result = 2

\* a step that reads a Cancel key: ETX, ESC on msvcrt, ESC then end of input
\* on termios
CancelRead ==
    \/ osName = "posix" /\ pc = "Read1" /\ keys' = <<ETX>>
    \/ osName = "posix" /\ pc = "Read2" /\ keys' = <<ESC, EOF>>
    \/ osName = "nt" /\ pc = "Loop" /\ keys' \in {<<ETX>>, <<ESC>>}

\* C3: a Cancel event received while the session is Running, at any cursor
\* position, ends the session with the result None.
C3_CancelReturnsNone ==
    [][(session = "Running" /\ CancelRead) => ActsAsCancel]_vars

\* a cancel after the cursor has moved
C3_Witness ==
    /\ pc = "Returned" /\ session = "Cancelled" /\ result = None
    /\ current_pos = 2 /\ keys = <<ETX>>

\* C4: for every N >= 1 and cursor c in 0..N-1 the window of display_menu
\* satisfies 0 <= start_idx <= c < end_idx <= N and
\* end_idx - start_idx <= min(10, N).
C4_WindowBounds ==
    pc = "Redrawn" =>
        /\ 0 <= start_idx /\ start_idx <= current_pos
        /\ current_pos < end_idx /\ end_idx <= N
        /\ end_idx - start_idx <= Min(10, N)

\* a window that was shifted back because it hit the end of the list
C4_Witness ==
    pc = "Redrawn" /\ N = 25 /\ current_pos = 23 /\ start_idx = 15 /\ end_idx = 25

\* C5: in every state of a session over N >= 1 options the cursor is in
\* 0..N-1, and it changes only on a MoveUp or MoveDown key, by exactly one.
C5_CursorInRange ==
    /\ [](N >= 1 => current_pos \in 0..(N - 1))
    /\ [][current_pos' # current_pos =>
            \/ keys' = UpSeq /\ current_pos' = current_pos - 1
            \/ keys' = DownSeq /\ current_pos' = current_pos + 1]_vars

\* two options, Down read three times: twice at the bottom
C5_Witness ==
    /\ pc = "Loop" /\ N = 2 /\ current_pos = 1 /\ keys = DownSeq
    /\ evlog = <<"Down", "Down", "Down">>

\* a step whose read found the input closed
ClosedRead ==
    \/ pc = "Read1" /\ keys' = <<EOF>>
    \/ pc = "Read2" /\ keys' = <<ESC, EOF>>
    \/ pc = "Read3" /\ keys' = <<ESC, LBR, EOF>>

\* C6: if a read of one byte yields no byte while the session is Running,
\* the session ends with the result None, as for a Cancel.
C6_ClosedInputCancels ==
    [][(session = "Running" /\ ClosedRead) => ActsAsCancel]_vars

C8_FallbackOnlyOnTerminalFailure ==
    (osName = "posix" /\ N >= 1 /\ pc = "Fallback") => fault \in {"tty", "io"}

\* C9: on the termios branch ESC '[' 'A' acts as MoveUp, ESC '[' 'B' as
\* MoveDown, ESC '[' x for any other byte x is ignored, 0x03 acts as Cancel,
\* carriage return and line feed act as Accept.
C9_TermiosDecoding ==
    [][(osName = "posix" /\ session = "Running") =>
         /\ (pc = "Read3" /\ keys' = <<ESC, LBR, "A">>) => ActsAsMoveUp
         /\ (pc = "Read3" /\ keys' = <<ESC, LBR, "B">>) => ActsAsMoveDown
         /\ (pc = "Read3" /\ \E x \in Bytes \ {"A", "B"} : keys' = <<ESC, LBR, x>>)
                => ActsAsIgnore
         /\ (pc = "Read1" /\ keys' = <<ETX>>) => ActsAsCancel
         /\ (pc = "Read1" /\ keys' \in {<<CR>>, <<LF>>}) => ActsAsAccept]_vars

\* Down, then Up, on the termios branch
C9_Witness ==
    /\ osName = "posix" /\ pc = "Loop" /\ keys = <<ESC, LBR, "A">>
    /\ evlog = <<"Down", "Up">> /\ current_pos = 0 /\ redraws = 3

\* C10: on the msvcrt branch 0xE0 'H' acts as MoveUp, 0xE0 'P' as MoveDown,
\* 0xE0 and any other byte is ignored, carriage return acts as Accept, ESC
\* and 0x03 act as Cancel, every other single byte is ignored.
C10_WindowsDecoding ==
    [][(osName = "nt" /\ session = "Running") =>
         /\ (pc = "Getch2" /\ keys' = <<E0, "H">>) => ActsAsMoveUp
         /\ (pc = "Getch2" /\ keys' = <<E0, "P">>) => ActsAsMoveDown
         /\ (pc = "Getch2" /\ \E x \in Bytes \ {"H", "P"} : keys' = <<E0, x>>)
                => ActsAsIgnore
         /\ (pc = "Loop" /\ keys' = <<CR>>) => ActsAsAccept
         /\ (pc = "Loop" /\ keys' \in {<<ESC>>, <<ETX>>}) => ActsAsCancel
         /\ (pc = "Loop" /\ \E x \in Bytes \ {E0, CR, ESC, ETX} : keys' = <<x>>)
                => ActsAsIgnore]_vars

\* 0xE0 and a byte that is no arrow, after a Down
C10_Witness ==
    /\ osName = "nt" /\ pc = "Loop" /\ keys = <<E0, "x">>
    /\ evlog = <<"Down">> /\ current_pos = 1 /\ redraws = 2

\* C11: on the termios branch a lone ESC, with no further byte of the same
\* keystroke waiting and the stream open, yields Cancel: the session returns
\* None without waiting for a later keystroke.
C11_LoneEscCancels ==
    [][(osName = "posix" /\ session = "Running" /\ pc = "Read1"
          /\ keys' = <<ESC>> /\ ~pending' /\ ~stdinClosed') => ActsAsCancel]_vars

\* C12: a byte that follows an ESC and is not '[' is decoded as its own key
\* event: carriage return and line feed as Accept, 0x03 as Cancel.
C12_ByteAfterEscIsDecoded ==
    [][(osName = "posix" /\ session = "Running" /\ pc = "Read2") =>
         /\ keys' \in {<<ESC, CR>>, <<ESC, LF>>} => ActsAsAccept
         /\ keys' = <<ESC, ETX>> => ActsAsCancel]_vars

\* C13: called with an empty option list the call returns None after a
\* warning, on every platform, and never engages raw mode, prints the header,
\* renders a menu or reads a key.
C13_EmptyListReturnsNone ==
    N = 0 =>
        /\ pc \in {"Init", "Fallback", "Returned"}
        /\ termAttrs = origAttrs
        /\ headerCount = 0 /\ redraws = 0 /\ screenLines = 0 /\ DrawnLines(drawn) = 0
        /\ keys = <<>>
        /\ pc = "Returned" => (result = None /\ warned)

\* the empty list on the msvcrt branch
C13_Witness ==
    N = 0 /\ pc = "Returned" /\ osName = "nt" /\ warned /\ result = None

C15_Markers ==
    pc = "Redrawn" =>
        /\ drawn[1] <=> start_idx > 0
        /\ drawn[3] <=> end_idx < N
        /\ (N = 25 /\ current_pos = 20) => (drawn[1] /\ ~drawn[3])

C15_Witness ==
    pc = "Redrawn" /\ N = 25 /\ current_pos = 20 /\ drawn = <<TRUE, 10, FALSE>>

\* the line count the window of the last display_menu call asks for
WindowLines ==
    (IF start_idx > 0 THEN 1 ELSE 0) + (end_idx - start_idx)
        + (IF end_idx < N THEN 1 ELSE 0)

IgnoreRead ==
    \/ /\ osName = "posix" /\ pc = "Read1"
       /\ \E x \in Bytes \ {ESC, CR, LF, ETX} : keys' = <<x>>
    \/ /\ osName = "posix" /\ pc = "Read2"
       /\ \E x \in Bytes \ {LBR, CR, LF, ETX} : keys' = <<ESC, x>>
    \/ /\ osName = "posix" /\ pc = "Read3"
       /\ \E x \in Bytes \ {"A", "B"} : keys' = <<ESC, LBR, x>>
    \/ /\ osName = "nt" /\ pc = "Loop"
       /\ \E x \in Bytes \ {E0, CR, ESC, ETX} : keys' = <<x>>
    \/ /\ osName = "nt" /\ pc = "Getch2"
       /\ \E x \in Bytes \ {"H", "P"} : keys' = <<E0, x>>

\* C17: an unrecognised byte or byte sequence read while Running leaves the
\* cursor, the line count and the session state unchanged and prints
\* nothing; the session stays Running.
C17_IgnoreChangesNothing ==
    [][(session = "Running" /\ IgnoreRead) =>
         /\ session' = "Running" /\ pc' = "Loop"
         /\ UNCHANGED <<current_pos, menu_lines_printed, start_idx, end_idx,
                        screenLines, headerCount, redraws, drawn, result>>]_vars

\* an unrecognised byte after a Down
C17_Witness ==
    /\ pc = "Loop" /\ session = "Running" /\ keys = <<"x">>
    /\ current_pos = 1 /\ redraws = 2 /\ evlog = <<"Down">>

ReadPcs == {"Read1", "Read2", "Read3"}

\* C18: raw mode is engaged before the header and the first menu are printed
\* and stays engaged until the session leaves Running.
C18_RawHeldThroughSession ==
    (osName = "posix" /\ session = "Running" /\ headerCount >= 1 /\ pc # "Redraw")
        => termAttrs = "raw"

\* C18, amended: on the termios branch raw mode is first engaged after the
\* header and the first menu have been printed; it is engaged anew in every
\* loop iteration, held while the bytes of one key are read and the redraw of
\* that key is printed, and the saved attributes are restored before the
\* next iteration and before the loop is left.
C18_RawModePerKey ==
    /\ [](termAttrs = "raw" <=> pc \in ReadPcs)
    /\ [](pc \notin ReadPcs => termAttrs = origAttrs)
    /\ [][(termAttrs # "raw" /\ termAttrs' = "raw") =>
            /\ pc = "Loop" /\ session = "Running"
            /\ headerCount = 1 /\ redraws >= 1]_vars

\* back at the top of the loop after an Up, the terminal as it was
C18_Witness ==
    /\ osName = "posix" /\ pc = "Loop" /\ keys = <<ESC, LBR, "B">>
    /\ redraws = 2 /\ origAttrs = "cbreak" /\ termAttrs = "cbreak"
    /\ old_settings = "cbreak"

\* C19: the window holds exactly min(10, N) options, and where 5 <= c and
\* c + 5 <= N it starts at c - 5.
C19_WindowFull ==
    pc = "Redrawn" =>
        /\ end_idx - start_idx = Min(10, N)
        /\ (5 <= current_pos /\ current_pos + 5 <= N) => start_idx = current_pos - 5

\* the cursor on the last of 25 options: ten options shown
C19_Witness ==
    pc = "Redrawn" /\ N = 25 /\ current_pos = 24 /\ start_idx = 15 /\ end_idx = 25

\* C20: in the fallback, a string picked by the user is answered by the
\* smallest index holding it; None is returned only if nothing was picked.
C20_FallbackReturnsFirstIndex ==
    (pc = "Returned" /\ session = "Faulted") =>
        IF picked = None
        THEN result = None
        ELSE /\ result \in 0..(N - 1)
             /\ choices[result + 1] = picked
             /\ \A j \in 1..result : choices[j] # picked

\* C21: after the first render a redraw happens only on a step that changes
\* the cursor: an Up at position 0 or a Down at position N-1 prints nothing,
\* erases nothing and leaves the line count as it is, and two consecutive
\* redraws highlight different positions.
C21_RedrawOnlyOnChange ==
    [][(pc # "Init" /\ pc # "Redraw") =>
         /\ (\/ redraws' # redraws \/ screenLines' # screenLines
             \/ drawn' # drawn \/ shownPos' # shownPos
             \/ menu_lines_printed' # menu_lines_printed
             \/ headerCount' # headerCount)
                => current_pos' # current_pos
         /\ redraws' # redraws => shownPos' # shownPos
         /\ (/\ pc \in {"Read3", "Getch2"}
             /\ \/ keys' = UpSeq /\ current_pos = 0
                \/ keys' = DownSeq /\ current_pos = N - 1)
                => /\ UNCHANGED <<scr, menu_lines_printed, current_pos>>
                   /\ pc' = "Loop"]_vars

\* an Up read at the top of the list: still the first render on the screen
C21_Witness ==
    /\ pc = "Loop" /\ keys = UpSeq /\ evlog = <<"Up">>
    /\ current_pos = 0 /\ redraws = 1 /\ shownPos = 0 /\ N >= 2

====
